---- MODULE Spec2Model ----
(***************************************************************************)
(* Model of the backpressure resource-manager wrapper                      *)
(* (core/node/libp2p/rcmgr_bp.go) and of the router factory built on the   *)
(* router parameter model (config RouterParams, routing factory).          *)
(*                                                                         *)
(* Wrapper: every caller is a goroutine making one call of a wrapper       *)
(* method.  A step of the model is one atomic operation of that method     *)
(* (an atomic.AddInt64, one call of the delegate, the end of the one       *)
(* second wait).  The delegate is external: each of its calls admits or    *)
(* rejects nondeterministically.  The console output of the methods is     *)
(* not state and is left out.                                              *)
(*                                                                         *)
(* Factory: the functions are operators over a configuration entry and     *)
(* the outcome of the external constructor they call.                      *)
(***************************************************************************)
EXTENDS Integers, Sequences, FiniteSets, TLC

\* ------------------------------------------------------------------ bounds
\* A delegate rejects at most MaxRejects attempts of one call.
MaxRejects == 2
\* A Tiered router is configured with at most MaxRouters backends.
MaxRouters == 3

\* ------------------------------------------------------------ value domains
Callers == {"c1", "c2"}
Nil == "nil"
Errors == {"errLimitExceeded", "errClosed"}
Scopes == {"scopeA", "scopeB"}
NoScope == "noScope"
NoArgs == <<>>
ConnArgs == {<<"DirInbound", "usefd", "/ip4/a">>, <<"DirOutbound", "nofd", "/ip4/b">>}
StreamArgs == {<<"peerA", "DirInbound">>, <<"peerB", "DirOutbound">>}
MemArgs == {<<"size64", "prioLow">>, <<"size4096", "prioAlways">>}
NoRet == [val |-> NoScope, err |-> "noReturn"]

VARIABLES
    connCount,      \* backpressureResourceManager.connCount
    streamCount,    \* backpressureResourceManager.streamCount
    counter,        \* resourceScopeSpan.counter of the one wrapper scope
    pc,             \* position of every caller in its method
    op,             \* the method a caller is executing
    args,           \* the arguments the caller passed
    val,            \* the method's local cms / str / span
    ret,            \* what the method returned to its caller
    hist,           \* history of the call: delegate calls and waits, in order
    pre,            \* the call's own counter when the call was made
    alone,          \* no other call of the same method was in flight since the call was made
    sawClose,       \* Close was called while the call was in its retry loop
    closed,         \* Close has been called
    closeRet,       \* what Close returned
    closeDelegate,  \* what delegate.Close returned
    conf,           \* the config.Router entry handed to the router factory
    out,            \* the factory function applied to conf and what it returned
    entries,        \* the configured backends of a Tiered router, in configuration order
    tiered,         \* Tiered.Routers once the Tiered router is constructed
    pm              \* what Tiered.ProvideMany returned

bpvars == <<connCount, streamCount, counter, pc, op, args, val, ret, hist,
            pre, alone, sawClose, closed, closeRet, closeDelegate>>

tvars == <<entries, tiered, pm>>

cfgvars == <<conf, out, tvars>>

vars == <<bpvars, cfgvars>>

\* --------------------------------------------------------------- histories
AttemptEv(a, o) == [ev |-> "attempt", a |-> a, out |-> o]
WaitEv == [ev |-> "wait", a |-> NoArgs, out |-> "none"]

Rejections(h) == Cardinality({i \in 1..Len(h) : h[i].ev = "attempt" /\ h[i].out = "reject"})
Attempts(h) == Cardinality({i \in 1..Len(h) : h[i].ev = "attempt"})
Waits(h) == Cardinality({i \in 1..Len(h) : h[i].ev = "wait"})

\* The counter method m works on (none for ReserveMemory).
CounterOf(m) ==
    CASE m = "OpenConnection" -> connCount
      [] m = "OpenStream" -> streamCount
      [] m = "BeginSpan" -> counter
      [] OTHER -> 0

InFlight(p) == pc[p] \notin {"idle", "done"}

\* Inside the retry loop, not yet admitted.
InLoop(p) == pc[p] \in {"attempt", "rejected", "sleep"}

\* ------------------------------------------------------------------- Init
BPInit ==
    /\ connCount = 0
    /\ streamCount = 0
    /\ counter = 0
    /\ pc = [p \in Callers |-> "idle"]
    /\ op = [p \in Callers |-> "none"]
    /\ args = [p \in Callers |-> NoArgs]
    /\ val = [p \in Callers |-> NoScope]
    /\ ret = [p \in Callers |-> NoRet]
    /\ hist = [p \in Callers |-> <<>>]
    /\ pre = [p \in Callers |-> 0]
    /\ alone = [p \in Callers |-> TRUE]
    /\ sawClose = [p \in Callers |-> FALSE]
    /\ closed = FALSE
    /\ closeRet = "noReturn"
    /\ closeDelegate = "noReturn"

\* A caller invokes method m with arguments a: the frame of the call.  A
\* caller makes one call.
Invoke(p, m, a) ==
    /\ pc[p] = "idle"
    /\ op' = [op EXCEPT ![p] = m]
    /\ args' = [args EXCEPT ![p] = a]
    /\ pre' = [pre EXCEPT ![p] = CounterOf(m)]
    /\ alone' = [q \in Callers |->
                    IF q = p THEN \A r \in Callers \ {p} : ~(InFlight(r) /\ op[r] = m)
                    ELSE IF pc[q] # "idle" /\ op[q] = m THEN FALSE ELSE alone[q]]
    /\ UNCHANGED sawClose

\* One call of the delegate's admission method: the delegate admits with a
\* scope or rejects with an error.  `next` is the position after an
\* admission, `rej` the position after a rejection.
DelegateAdmits(p, s, next) ==
    /\ val' = [val EXCEPT ![p] = s]
    /\ hist' = [hist EXCEPT ![p] = Append(@, AttemptEv(args[p], s))]
    /\ pc' = [pc EXCEPT ![p] = next]

DelegateRejects(p, e, rej) ==
    /\ Rejections(hist[p]) < MaxRejects
    /\ val' = [val EXCEPT ![p] = NoScope]
    /\ hist' = [hist EXCEPT ![p] = Append(@, AttemptEv(args[p], "reject"))]
    /\ pc' = [pc EXCEPT ![p] = rej]

\* return v, e
Return(p, v, e) ==
    /\ pc' = [pc EXCEPT ![p] = "done"]
    /\ ret' = [ret EXCEPT ![p] = [val |-> v, err |-> e]]

\* ---------------------------------------------------------- OpenConnection
\* The call and atomic.AddInt64(&bprm.connCount, 1).
OpenConnection(p) ==
    /\ \E a \in ConnArgs : Invoke(p, "OpenConnection", a)
    /\ connCount' = connCount + 1
    /\ pc' = [pc EXCEPT ![p] = "attempt"]
    /\ UNCHANGED <<streamCount, counter, val, ret, hist, closed, closeRet, closeDelegate>>
    /\ UNCHANGED cfgvars

\* Mutant: a rejection is returned to the caller instead of being retried.
OpenConnectionAttemptGivesUp(p) ==
    /\ pc[p] = "attempt" /\ op[p] = "OpenConnection"
    /\ \/ /\ \E s \in Scopes : DelegateAdmits(p, s, "admitted")
          /\ UNCHANGED ret
       \/ \E e \in Errors :
            /\ DelegateRejects(p, e, "done")
            /\ ret' = [ret EXCEPT ![p] = [val |-> NoScope, err |-> e]]
    /\ UNCHANGED <<connCount, streamCount, counter, op, args, pre, alone,
                   sawClose, closed, closeRet, closeDelegate>>
    /\ UNCHANGED cfgvars

\* cms, err := bprm.delegate.OpenConnection(dir, usefd, endpoint); if err == nil
OpenConnectionAttempt(p) ==
    /\ pc[p] = "attempt" /\ op[p] = "OpenConnection"
    /\ \/ \E s \in Scopes : DelegateAdmits(p, s, "admitted")
       \/ \E e \in Errors : DelegateRejects(p, e, "sleep")
    /\ UNCHANGED <<connCount, streamCount, counter, op, args, ret, pre, alone,
                   sawClose, closed, closeRet, closeDelegate>>
    /\ UNCHANGED cfgvars

\* Mutant: the admitted call returns without decrementing connCount.
OpenConnectionAdmittedNoDecrement(p) ==
    /\ pc[p] = "admitted" /\ op[p] = "OpenConnection"
    /\ UNCHANGED <<connCount, streamCount, counter>>
    /\ Return(p, val[p], Nil)
    /\ UNCHANGED <<op, args, val, hist, pre, alone, sawClose, closed, closeRet,
                   closeDelegate>>
    /\ UNCHANGED cfgvars

\* atomic.AddInt64(&bprm.connCount, -1); return cms, nil
OpenConnectionAdmitted(p) ==
    /\ pc[p] = "admitted" /\ op[p] = "OpenConnection"
    /\ connCount' = connCount - 1
    /\ UNCHANGED <<streamCount, counter>>
    /\ Return(p, val[p], Nil)
    /\ UNCHANGED <<op, args, val, hist, pre, alone, sawClose, closed, closeRet,
                   closeDelegate>>
    /\ UNCHANGED cfgvars

\* <-time.After(1 * time.Second), then the next iteration of the loop
OpenConnectionWake(p) ==
    /\ pc[p] = "sleep" /\ op[p] = "OpenConnection"
    /\ hist' = [hist EXCEPT ![p] = Append(@, WaitEv)]
    /\ pc' = [pc EXCEPT ![p] = "attempt"]
    /\ UNCHANGED <<connCount, streamCount, counter, op, args, val, ret, pre,
                   alone, sawClose, closed, closeRet, closeDelegate>>
    /\ UNCHANGED cfgvars

\* -------------------------------------------------------------- OpenStream
\* The call and atomic.AddInt64(&bprm.streamCount, 1).
OpenStream(p) ==
    /\ \E a \in StreamArgs : Invoke(p, "OpenStream", a)
    /\ streamCount' = streamCount + 1
    /\ pc' = [pc EXCEPT ![p] = "attempt"]
    /\ UNCHANGED <<connCount, counter, val, ret, hist, closed, closeRet, closeDelegate>>
    /\ UNCHANGED cfgvars

\* Mutant: a rejected attempt is retried at once, without the wait.
OpenStreamAttemptNoWait(p) ==
    /\ pc[p] = "attempt" /\ op[p] = "OpenStream"
    /\ \/ \E s \in Scopes : DelegateAdmits(p, s, "admitted")
       \/ \E e \in Errors : DelegateRejects(p, e, "attempt")
    /\ UNCHANGED <<connCount, streamCount, counter, op, args, ret, pre, alone,
                   sawClose, closed, closeRet, closeDelegate>>
    /\ UNCHANGED cfgvars

\* Mutant: the retry loop holds a lock, so an attempt waits for every other
\* caller that is inside its OpenStream loop.
OpenStreamAttemptLocked(p) ==
    /\ pc[p] = "attempt" /\ op[p] = "OpenStream"
    /\ \A q \in Callers \ {p} : ~(op[q] = "OpenStream" /\ InLoop(q))
    /\ \/ \E s \in Scopes : DelegateAdmits(p, s, "admitted")
       \/ \E e \in Errors : DelegateRejects(p, e, "sleep")
    /\ UNCHANGED <<connCount, streamCount, counter, op, args, ret, pre, alone,
                   sawClose, closed, closeRet, closeDelegate>>
    /\ UNCHANGED cfgvars

\* str, err := bprm.delegate.OpenStream(p, dir); if err == nil
OpenStreamAttempt(p) ==
    /\ pc[p] = "attempt" /\ op[p] = "OpenStream"
    /\ \/ \E s \in Scopes : DelegateAdmits(p, s, "admitted")
       \/ \E e \in Errors : DelegateRejects(p, e, "sleep")
    /\ UNCHANGED <<connCount, streamCount, counter, op, args, ret, pre, alone,
                   sawClose, closed, closeRet, closeDelegate>>
    /\ UNCHANGED cfgvars

\* atomic.AddInt64(&bprm.streamCount, -1); return str, nil
\* Mutant: the decrement is a plain read-modify-write on the value read when
\* the call started, so a concurrent update is lost.
OpenStreamAdmittedLostUpdate(p) ==
    /\ pc[p] = "admitted" /\ op[p] = "OpenStream"
    /\ streamCount' = (pre[p] + 1) - 1
    /\ UNCHANGED <<connCount, counter>>
    /\ Return(p, val[p], Nil)
    /\ UNCHANGED <<op, args, val, hist, pre, alone, sawClose, closed, closeRet,
                   closeDelegate>>
    /\ UNCHANGED cfgvars

OpenStreamAdmitted(p) ==
    /\ pc[p] = "admitted" /\ op[p] = "OpenStream"
    /\ streamCount' = streamCount - 1
    /\ UNCHANGED <<connCount, counter>>
    /\ Return(p, val[p], Nil)
    /\ UNCHANGED <<op, args, val, hist, pre, alone, sawClose, closed, closeRet,
                   closeDelegate>>
    /\ UNCHANGED cfgvars

\* <-time.After(1 * time.Second), then the next iteration of the loop
OpenStreamWake(p) ==
    /\ pc[p] = "sleep" /\ op[p] = "OpenStream"
    /\ hist' = [hist EXCEPT ![p] = Append(@, WaitEv)]
    /\ pc' = [pc EXCEPT ![p] = "attempt"]
    /\ UNCHANGED <<connCount, streamCount, counter, op, args, val, ret, pre,
                   alone, sawClose, closed, closeRet, closeDelegate>>
    /\ UNCHANGED cfgvars

\* Mutant: Close cancels the retry loops, which return the error.
CloseCancels ==
    /\ ~closed
    /\ closed' = TRUE
    /\ \E r \in {Nil} \cup Errors :
        /\ closeDelegate' = r
        /\ closeRet' = r
    /\ sawClose' = [p \in Callers |-> InLoop(p) \/ sawClose[p]]
    /\ pc' = [p \in Callers |-> IF InLoop(p) THEN "done" ELSE pc[p]]
    /\ ret' = [p \in Callers |->
                  IF InLoop(p) THEN [val |-> NoScope, err |-> "errClosed"] ELSE ret[p]]
    /\ UNCHANGED <<connCount, streamCount, counter, op, args, val, hist,
                   pre, alone>>
    /\ UNCHANGED cfgvars

\* ------------------------------------------------------------------- Close
\* return bprm.delegate.Close()
Close ==
    /\ ~closed
    /\ closed' = TRUE
    /\ \E r \in {Nil} \cup Errors :
        /\ closeDelegate' = r
        /\ closeRet' = r
    /\ sawClose' = [p \in Callers |-> InLoop(p) \/ sawClose[p]]
    /\ UNCHANGED <<connCount, streamCount, counter, pc, op, args, val, ret, hist,
                   pre, alone>>
    /\ UNCHANGED cfgvars

\* Mutant: the delegate's error is logged and swallowed.
ReserveMemorySwallowsError(p) ==
    /\ \E a \in MemArgs : Invoke(p, "ReserveMemory", a)
    /\ \E r \in {Nil} \cup Errors :
        /\ hist' = [hist EXCEPT ![p] = <<AttemptEv(args'[p], r)>>]
        /\ Return(p, NoScope, Nil)
    /\ UNCHANGED <<connCount, streamCount, counter, val, closed, closeRet, closeDelegate>>
    /\ UNCHANGED cfgvars

\* ----------------------------------------------------------- ReserveMemory
\* err := rss.delegate.ReserveMemory(size, prio); return err
ReserveMemory(p) ==
    /\ \E a \in MemArgs : Invoke(p, "ReserveMemory", a)
    /\ \E r \in {Nil} \cup Errors :
        /\ hist' = [hist EXCEPT ![p] = <<AttemptEv(args'[p], r)>>]
        /\ Return(p, NoScope, r)
    /\ UNCHANGED <<connCount, streamCount, counter, val, closed, closeRet, closeDelegate>>
    /\ UNCHANGED cfgvars

\* --------------------------------------------------------------- BeginSpan
\* The call: the loop is entered without touching the counter.
\* Mutant: the counter is incremented on entry, as in OpenConnection.
BeginSpanCountsEntry(p) ==
    /\ Invoke(p, "BeginSpan", NoArgs)
    /\ counter' = counter + 1
    /\ pc' = [pc EXCEPT ![p] = "attempt"]
    /\ UNCHANGED <<connCount, streamCount, val, ret, hist, closed, closeRet,
                   closeDelegate>>
    /\ UNCHANGED cfgvars

BeginSpan(p) ==
    /\ Invoke(p, "BeginSpan", NoArgs)
    /\ pc' = [pc EXCEPT ![p] = "attempt"]
    /\ UNCHANGED <<connCount, streamCount, counter, val, ret, hist, closed, closeRet,
                   closeDelegate>>
    /\ UNCHANGED cfgvars

\* Mutant: a retry bound, the second rejection is returned to the caller.
BeginSpanAttemptBounded(p) ==
    /\ pc[p] = "attempt" /\ op[p] = "BeginSpan"
    /\ \/ /\ \E s \in Scopes : DelegateAdmits(p, s, "admitted")
          /\ UNCHANGED ret
       \/ \E e \in Errors :
            /\ DelegateRejects(p, e, IF Rejections(hist[p]) >= 1 THEN "done" ELSE "rejected")
            /\ ret' = [ret EXCEPT ![p] = IF Rejections(hist[p]) >= 1
                                         THEN [val |-> NoScope, err |-> e] ELSE @]
    /\ UNCHANGED <<connCount, streamCount, counter, op, args, pre, alone,
                   sawClose, closed, closeRet, closeDelegate>>
    /\ UNCHANGED cfgvars

\* span, err := rss.delegate.BeginSpan(); if err == nil
BeginSpanAttempt(p) ==
    /\ pc[p] = "attempt" /\ op[p] = "BeginSpan"
    /\ \/ \E s \in Scopes : DelegateAdmits(p, s, "admitted")
       \/ \E e \in Errors : DelegateRejects(p, e, "rejected")
    /\ UNCHANGED <<connCount, streamCount, counter, op, args, ret, pre, alone,
                   sawClose, closed, closeRet, closeDelegate>>
    /\ UNCHANGED cfgvars

\* atomic.AddInt64(&rss.counter, -1); return span, nil
BeginSpanAdmitted(p) ==
    /\ pc[p] = "admitted" /\ op[p] = "BeginSpan"
    /\ counter' = counter - 1
    /\ UNCHANGED <<connCount, streamCount>>
    /\ Return(p, val[p], Nil)
    /\ UNCHANGED <<op, args, val, hist, pre, alone, sawClose, closed, closeRet,
                   closeDelegate>>
    /\ UNCHANGED cfgvars

\* atomic.AddInt64(&rss.counter, 1)
\* Mutant: a rejection leaves the counter alone.
BeginSpanRejectedNoIncrement(p) ==
    /\ pc[p] = "rejected" /\ op[p] = "BeginSpan"
    /\ pc' = [pc EXCEPT ![p] = "sleep"]
    /\ UNCHANGED <<connCount, streamCount, counter, op, args, val, ret, hist, pre,
                   alone, sawClose, closed, closeRet, closeDelegate>>
    /\ UNCHANGED cfgvars

BeginSpanRejected(p) ==
    /\ pc[p] = "rejected" /\ op[p] = "BeginSpan"
    /\ counter' = counter + 1
    /\ pc' = [pc EXCEPT ![p] = "sleep"]
    /\ UNCHANGED <<connCount, streamCount, op, args, val, ret, hist, pre,
                   alone, sawClose, closed, closeRet, closeDelegate>>
    /\ UNCHANGED cfgvars

\* time.Sleep(1 * time.Second), then the next iteration of the loop
BeginSpanWake(p) ==
    /\ pc[p] = "sleep" /\ op[p] = "BeginSpan"
    /\ hist' = [hist EXCEPT ![p] = Append(@, WaitEv)]
    /\ pc' = [pc EXCEPT ![p] = "attempt"]
    /\ UNCHANGED <<connCount, streamCount, counter, op, args, val, ret, pre,
                   alone, sawClose, closed, closeRet, closeDelegate>>
    /\ UNCHANGED cfgvars

\* ------------------------------------------------------------ pass-through
\* What the methods without retry take and return.  A method without a
\* value or without an error in its signature has NoResult in that place.
NoResult == "none"
Callbacks == {<<"f1">>, <<"f2">>}
Services == {"svcA", "svcB"}
Protocols == {"/proto/a", "/proto/b"}
Peers == {"peerA", "peerB"}
Sizes == {<<"size64">>, <<"size4096">>}
Stats == {"statEmpty", "statBusy"}
ErrorResults == {[val |-> NoResult, err |-> e] : e \in {Nil} \cup Errors}
ScopeResults == {[val |-> v, err |-> NoResult] : v \in {Nil} \cup Scopes}
StatResults == {[val |-> v, err |-> NoResult] : v \in Stats}
VoidResults == {[val |-> NoResult, err |-> NoResult]}

\* One call of method m of the delegate `d` with arguments a, answering r.
CallEv(d, m, a, r) == [ev |-> "call", on |-> d, m |-> m, a |-> a, res |-> r]

\* return recv.delegate.m(a...): the body of every pass-through method, the
\* delegate answering r to the call with the caller's arguments.
PassThrough(p, recv, r) ==
    /\ hist' = [hist EXCEPT ![p] = <<CallEv(recv, op'[p], args'[p], r)>>]
    /\ Return(p, r.val, r.err)
    /\ UNCHANGED <<connCount, streamCount, counter, val, closed, closeRet, closeDelegate>>
    /\ UNCHANGED cfgvars

ViewSystem(p) ==
    /\ \E a \in Callbacks : Invoke(p, "ViewSystem", a)
    /\ \E r \in ErrorResults : PassThrough(p, "bprm", r)

ViewTransient(p) ==
    /\ \E a \in Callbacks : Invoke(p, "ViewTransient", a)
    /\ \E r \in ErrorResults : PassThrough(p, "bprm", r)

ViewService(p) ==
    /\ \E a \in Services \X {"f1"} : Invoke(p, "ViewService", a)
    /\ \E r \in ErrorResults : PassThrough(p, "bprm", r)

ViewProtocol(p) ==
    /\ \E a \in Protocols \X {"f1"} : Invoke(p, "ViewProtocol", a)
    /\ \E r \in ErrorResults : PassThrough(p, "bprm", r)

ViewPeer(p) ==
    /\ \E a \in Peers \X {"f1"} : Invoke(p, "ViewPeer", a)
    /\ \E r \in ErrorResults : PassThrough(p, "bprm", r)

ProtocolScope(p) ==
    /\ \E a \in {NoArgs} : Invoke(p, "ProtocolScope", a)
    /\ \E r \in ScopeResults : PassThrough(p, "sms", r)

SetProtocol(p) ==
    /\ \E a \in {<<x>> : x \in Protocols} : Invoke(p, "SetProtocol", a)
    /\ \E r \in ErrorResults : PassThrough(p, "sms", r)

ServiceScope(p) ==
    /\ \E a \in {NoArgs} : Invoke(p, "ServiceScope", a)
    /\ \E r \in ScopeResults : PassThrough(p, "sms", r)

SetService(p) ==
    /\ \E a \in {<<x>> : x \in Services} : Invoke(p, "SetService", a)
    /\ \E r \in ErrorResults : PassThrough(p, "sms", r)

StreamPeerScope(p) ==
    /\ \E a \in {NoArgs} : Invoke(p, "PeerScope", a)
    /\ \E r \in ScopeResults : PassThrough(p, "sms", r)

ConnPeerScope(p) ==
    /\ \E a \in {NoArgs} : Invoke(p, "PeerScope", a)
    /\ \E r \in ScopeResults : PassThrough(p, "cms", r)

\* Mutant: the delegate's error is dropped, the method returns nil.
SetPeerSwallowsError(p) ==
    /\ \E a \in {<<x>> : x \in Peers} : Invoke(p, "SetPeer", a)
    /\ \E r \in ErrorResults :
        /\ hist' = [hist EXCEPT ![p] = <<CallEv("cms", "SetPeer", args'[p], r)>>]
        /\ Return(p, NoResult, Nil)
    /\ UNCHANGED <<connCount, streamCount, counter, val, closed, closeRet, closeDelegate>>
    /\ UNCHANGED cfgvars

SetPeer(p) ==
    /\ \E a \in {<<x>> : x \in Peers} : Invoke(p, "SetPeer", a)
    /\ \E r \in ErrorResults : PassThrough(p, "cms", r)

ReleaseMemory(p) ==
    /\ \E a \in Sizes : Invoke(p, "ReleaseMemory", a)
    /\ \E r \in VoidResults : PassThrough(p, "rss", r)

Stat(p) ==
    /\ \E a \in {NoArgs} : Invoke(p, "Stat", a)
    /\ \E r \in StatResults : PassThrough(p, "rss", r)

Done(p) ==
    /\ \E a \in {NoArgs} : Invoke(p, "Done", a)
    /\ \E r \in VoidResults : PassThrough(p, "rss", r)

\* The steps of caller p inside the wrapper.
Step(p) ==
    \/ OpenConnectionAttempt(p)
    \/ OpenConnectionAdmitted(p)
    \/ OpenConnectionWake(p)
    \/ OpenStreamAttempt(p)
    \/ OpenStreamAdmitted(p)
    \/ OpenStreamWake(p)
    \/ BeginSpanAttempt(p)
    \/ BeginSpanAdmitted(p)
    \/ BeginSpanRejected(p)
    \/ BeginSpanWake(p)

Next ==
    \/ \E p \in Callers :
        \/ OpenConnection(p)
        \/ OpenStream(p)
        \/ BeginSpan(p)
        \/ ReserveMemory(p)
        \/ Step(p)
    \/ Close

\* The wrapper with all its methods, the pass-through ones included.
PassNext ==
    \/ Next
    \/ \E p \in Callers :
        \/ ViewSystem(p)
        \/ ViewTransient(p)
        \/ ViewService(p)
        \/ ViewProtocol(p)
        \/ ViewPeer(p)
        \/ ProtocolScope(p)
        \/ SetProtocol(p)
        \/ ServiceScope(p)
        \/ SetService(p)
        \/ StreamPeerScope(p)
        \/ ConnPeerScope(p)
        \/ SetPeer(p)
        \/ ReleaseMemory(p)
        \/ Stat(p)
        \/ Done(p)

\* ===================================================== router parameters
\* A value of the map[string]interface{}: a tagged variant.  The nil value is
\* what indexing the map yields for a key that is not in it.
StrV(x) == [t |-> "string", s |-> x, n |-> 0, b |-> FALSE, l |-> <<>>]
IntV(x) == [t |-> "int", s |-> "", n |-> x, b |-> FALSE, l |-> <<>>]
BoolV(x) == [t |-> "bool", s |-> "", n |-> 0, b |-> x, l |-> <<>>]
SliceV(x) == [t |-> "[]string", s |-> "", n |-> 0, b |-> FALSE, l |-> x]
NilV == [t |-> "nil", s |-> "", n |-> 0, b |-> FALSE, l |-> <<>>]

RouterTypeReframe == "reframe"
RouterTypeDHT == "dht"

RouterParamEndpoint == "Endpoint"
RouterParamPriority == "Priority"
RouterParamDHTType == "Mode"
RouterParamTrackFullNetworkDHT == "TrackFullNetworkDHT"

RouterValueDHTTypeServer == "dhtserver"
RouterValueDHTTypeClient == "dhtclient"
RouterValueDHTTypeNone == "none"
RouterValueDHTType == "dht"

RouterValueDHTTypes ==
    <<RouterValueDHTType, RouterValueDHTTypeServer, RouterValueDHTTypeClient,
      RouterValueDHTTypeNone>>

\* out, ok := rp[string(key)].(string)
String(rp, key) ==
    IF rp[key].t = "string" THEN [out |-> rp[key].s, ok |-> TRUE]
    ELSE [out |-> "", ok |-> FALSE]

\* Mutant: ok reports that the key is present, whatever the type of its value.
NumberOkWhenPresent(rp, key) ==
    [out |-> rp[key].n, ok |-> rp[key].t # "nil"]

\* out, ok := rp[string(key)].(int)
Number(rp, key) ==
    IF rp[key].t = "int" THEN [out |-> rp[key].n, ok |-> TRUE]
    ELSE [out |-> 0, ok |-> FALSE]

\* out, ok := rp[string(key)].([]string)
StringSlice(rp, key) ==
    IF rp[key].t = "[]string" THEN [out |-> rp[key].l, ok |-> TRUE]
    ELSE [out |-> <<>>, ok |-> FALSE]

\* out, ok := rp[string(key)].(bool)
Bool(rp, key) ==
    IF rp[key].t = "bool" THEN [out |-> rp[key].b, ok |-> TRUE]
    ELSE [out |-> FALSE, ok |-> FALSE]

defaultPriority == 100000

\* Mutant: a missing Priority yields the zero value.
GetPriorityZeroDefault(params) ==
    Number(params, RouterParamPriority).out

\* Mutant: a Priority of 0 is taken for a missing one.
GetPriorityZeroIsUnset(params) ==
    LET param == Number(params, RouterParamPriority)
    IN  IF ~param.ok \/ param.out = 0 THEN defaultPriority ELSE param.out

\* param, ok := params.Number(config.RouterParamPriority)
GetPriority(params) ==
    LET param == Number(params, RouterParamPriority)
    IN  IF ~param.ok THEN defaultPriority ELSE param.out

\* ========================================================== router factory
\* Routers and errors the factory returns.  `built` lists the constructors
\* of the external libraries the function called, in order, each with the
\* argument that matters (the endpoint, the DHT mode).
NilRouter == [kind |-> "nil", mode |-> ""]
NullRouter == [kind |-> "routinghelpers.Null", mode |-> ""]
DHTRouter(mode) == [kind |-> "dht", mode |-> mode]
FullRTRouter == [kind |-> "fullrt", mode |-> ""]
ReframeRouter == [kind |-> "reframeRoutingWrapper", mode |-> ""]

NilErr == [kind |-> "nil", ParamName |-> "", InvalidValue |-> "", ValidValues |-> <<>>,
           RouterType |-> "", msg |-> ""]
\* An error returned by a constructor of an external library.
ExternalErr(e) == [NilErr EXCEPT !.kind = "external", !.msg = e]
InvalidValueError(name, value, valid) ==
    [NilErr EXCEPT !.kind = "InvalidValueError", !.ParamName = name,
                   !.InvalidValue = value, !.ValidValues = valid]
\* NewParamNeededErr(param, routing): the "missing required parameter" error,
\* naming the parameter and the router type.
NewParamNeededErr(param, routing) ==
    [NilErr EXCEPT !.kind = "ParamNeededError", !.ParamName = param,
                   !.RouterType = routing]

Ctor(name, arg) == [ctor |-> name, arg |-> arg]
Result(r, e, b) == [router |-> r, err |-> e, built |-> b]

\* dht.New(...): ext is the constructor's error, Nil when it succeeds.
createDHT(ext, mode) ==
    IF ext = Nil THEN Result(DHTRouter(mode), NilErr, <<Ctor("dht.New", mode)>>)
    ELSE Result(NilRouter, ExternalErr(ext), <<Ctor("dht.New", mode)>>)

\* fullrt.NewFullRT(...)
createFullRT(ext) ==
    IF ext = Nil THEN Result(FullRTRouter, NilErr, <<Ctor("fullrt.NewFullRT", "")>>)
    ELSE Result(NilRouter, ExternalErr(ext), <<Ctor("fullrt.NewFullRT", "")>>)

\* Mutant: the "none" case is missing from the switch.
DHTRoutingFromConfigWithoutNone(c, ext) ==
    LET fullDHT == Bool(c.Parameters, RouterParamTrackFullNetworkDHT)
        dhtTP == String(c.Parameters, RouterParamDHTType).out
    IN  IF fullDHT.out /\ fullDHT.ok THEN createFullRT(ext)
        ELSE CASE dhtTP = RouterValueDHTType -> createDHT(ext, "ModeAuto")
               [] dhtTP = RouterValueDHTTypeClient -> createDHT(ext, "ModeClient")
               [] dhtTP = RouterValueDHTTypeServer -> createDHT(ext, "ModeServer")
               [] OTHER -> Result(NilRouter,
                                  InvalidValueError(RouterParamDHTType, dhtTP,
                                                    RouterValueDHTTypes),
                                  <<>>)

\* Mutant: the switch has no default case, an unknown Mode keeps dht.ModeAuto.
DHTRoutingFromConfigWithoutDefault(c, ext) ==
    LET fullDHT == Bool(c.Parameters, RouterParamTrackFullNetworkDHT)
        dhtTP == String(c.Parameters, RouterParamDHTType).out
    IN  IF fullDHT.out /\ fullDHT.ok THEN createFullRT(ext)
        ELSE CASE dhtTP = RouterValueDHTTypeClient -> createDHT(ext, "ModeClient")
               [] dhtTP = RouterValueDHTTypeServer -> createDHT(ext, "ModeServer")
               [] dhtTP = RouterValueDHTTypeNone -> Result(NullRouter, NilErr, <<>>)
               [] OTHER -> createDHT(ext, "ModeAuto")

\* Mutant: Mode is read and validated before TrackFullNetworkDHT is tested.
DHTRoutingFromConfigModeFirst(c, ext) ==
    LET fullDHT == Bool(c.Parameters, RouterParamTrackFullNetworkDHT)
        dhtTP == String(c.Parameters, RouterParamDHTType).out
    IN  CASE dhtTP = RouterValueDHTTypeNone -> Result(NullRouter, NilErr, <<>>)
          [] dhtTP \notin {RouterValueDHTType, RouterValueDHTTypeClient,
                            RouterValueDHTTypeServer, RouterValueDHTTypeNone} ->
                 Result(NilRouter,
                        InvalidValueError(RouterParamDHTType, dhtTP, RouterValueDHTTypes),
                        <<>>)
          [] OTHER ->
                 IF fullDHT.out /\ fullDHT.ok THEN createFullRT(ext)
                 ELSE createDHT(ext, CASE dhtTP = RouterValueDHTType -> "ModeAuto"
                                       [] dhtTP = RouterValueDHTTypeClient -> "ModeClient"
                                       [] dhtTP = RouterValueDHTTypeServer -> "ModeServer")

DHTRoutingFromConfig(c, ext) ==
    LET fullDHT == Bool(c.Parameters, RouterParamTrackFullNetworkDHT)
        dhtTP == String(c.Parameters, RouterParamDHTType).out
    IN  IF fullDHT.out /\ fullDHT.ok THEN createFullRT(ext)
        ELSE CASE dhtTP = RouterValueDHTType -> createDHT(ext, "ModeAuto")
               [] dhtTP = RouterValueDHTTypeClient -> createDHT(ext, "ModeClient")
               [] dhtTP = RouterValueDHTTypeServer -> createDHT(ext, "ModeServer")
               [] dhtTP = RouterValueDHTTypeNone -> Result(NullRouter, NilErr, <<>>)
               [] OTHER -> Result(NilRouter,
                                  InvalidValueError(RouterParamDHTType, dhtTP,
                                                    RouterValueDHTTypes),
                                  <<>>)

\* Mutant: the ok of the Endpoint lookup is ignored, the client is built on
\* the zero value.
ReframeRoutingFromConfigIgnoresOk(c, ext) ==
    LET e == String(c.Parameters, RouterParamEndpoint)
    IN  IF ext # Nil
        THEN Result(NilRouter, ExternalErr(ext),
                    <<Ctor("drp.New_DelegatedRouting_Client", e.out)>>)
        ELSE Result(ReframeRouter, NilErr,
                    <<Ctor("drp.New_DelegatedRouting_Client", e.out),
                      Ctor("drc.NewClient", ""),
                      Ctor("drc.NewContentRoutingClient", "")>>)

\* ext is the error of drp.New_DelegatedRouting_Client(addr), Nil when it succeeds.
ReframeRoutingFromConfig(c, ext) ==
    LET e == String(c.Parameters, RouterParamEndpoint)
    IN  IF ~e.ok
        THEN Result(NilRouter, NewParamNeededErr(RouterParamEndpoint, c.Type), <<>>)
        ELSE IF ext # Nil
        THEN Result(NilRouter, ExternalErr(ext),
                    <<Ctor("drp.New_DelegatedRouting_Client", e.out)>>)
        ELSE Result(ReframeRouter, NilErr,
                    <<Ctor("drp.New_DelegatedRouting_Client", e.out),
                      Ctor("drc.NewClient", ""),
                      Ctor("drc.NewContentRoutingClient", "")>>)

\* ------------------------------------------------------- factory: inputs
ParamKeys == {RouterParamEndpoint, RouterParamPriority, RouterParamDHTType,
              RouterParamTrackFullNetworkDHT}
ParamValues ==
    {NilV} \cup {StrV(x) : x \in {"dht", "dhtclient", "dhtserver", "none", "bogus"}}
           \cup {BoolV(TRUE), BoolV(FALSE)}
           \cup {IntV(x) : x \in {-3, 0, 7}}
           \cup {SliceV(<<"a">>)}
Confs == [Type : {RouterTypeDHT, RouterTypeReframe}, Parameters : [ParamKeys -> ParamValues]]
CtorErrors == {"errConstruct"}

NoConf == [Type |-> "", Parameters |-> [k \in ParamKeys |-> NilV]]
NoOut == [fn |-> "none", ext |-> Nil, res |-> Result(NilRouter, NilErr, <<>>)]

CfgIdle == conf = NoConf /\ out = NoOut

\* The factory applies DHTRoutingFromConfig to the entry.
ApplyDHTRoutingFromConfig ==
    /\ out.fn = "none" /\ conf # NoConf
    /\ \E ext \in {Nil} \cup CtorErrors :
        out' = [fn |-> "DHTRoutingFromConfig", ext |-> ext,
                res |-> DHTRoutingFromConfig(conf, ext)]
    /\ UNCHANGED <<conf, tvars, bpvars>>

\* The factory applies ReframeRoutingFromConfig to the entry.
ApplyReframeRoutingFromConfig ==
    /\ out.fn = "none" /\ conf # NoConf
    /\ \E ext \in {Nil} \cup CtorErrors :
        out' = [fn |-> "ReframeRoutingFromConfig", ext |-> ext,
                res |-> ReframeRoutingFromConfig(conf, ext)]
    /\ UNCHANGED <<conf, tvars, bpvars>>

CfgNext ==
    \/ ApplyDHTRoutingFromConfig
    \/ ApplyReframeRoutingFromConfig

\* --------------------------------------------------- RouterParams: calls
\* A call of one accessor of the entry's parameters with one key.
ApplyString ==
    /\ out.fn = "none"
    /\ \E key \in ParamKeys :
        out' = [fn |-> "String", key |-> key, res |-> String(conf.Parameters, key)]
    /\ UNCHANGED <<conf, tvars, bpvars>>

ApplyNumber ==
    /\ out.fn = "none"
    /\ \E key \in ParamKeys :
        out' = [fn |-> "Number", key |-> key, res |-> Number(conf.Parameters, key)]
    /\ UNCHANGED <<conf, tvars, bpvars>>

ApplyStringSlice ==
    /\ out.fn = "none"
    /\ \E key \in ParamKeys :
        out' = [fn |-> "StringSlice", key |-> key,
                res |-> StringSlice(conf.Parameters, key)]
    /\ UNCHANGED <<conf, tvars, bpvars>>

ApplyBool ==
    /\ out.fn = "none"
    /\ \E key \in ParamKeys :
        out' = [fn |-> "Bool", key |-> key, res |-> Bool(conf.Parameters, key)]
    /\ UNCHANGED <<conf, tvars, bpvars>>

\* A call of GetPriority with the entry's parameters.
ApplyGetPriority ==
    /\ out.fn = "none"
    /\ out' = [fn |-> "GetPriority", key |-> RouterParamPriority,
               res |-> GetPriority(conf.Parameters)]
    /\ UNCHANGED <<conf, tvars, bpvars>>

ParamNext ==
    \/ ApplyString
    \/ ApplyNumber
    \/ ApplyStringSlice
    \/ ApplyBool
    \/ ApplyGetPriority

\* ============================================================ Tiered router
\* A backend of the Tiered router: its position in the configuration, its
\* parameters, and whether its type implements ProvideMany.
Backend(i, prio, batch) ==
    [id |-> i,
     Parameters |-> [k \in ParamKeys |-> IF k = RouterParamPriority THEN prio ELSE NilV],
     batch |-> batch]

\* The nil ProvideMany and &ProvideManyWrapper{pms: pms}.
NilProvideMany == [isNil |-> TRUE, pms |-> <<>>]
ProvideManyWrapper(pms) == [isNil |-> FALSE, pms |-> pms]

\* for _, r := range ds.Tiered.Routers { pm, ok := r.(ProvideMany); ... }
RECURSIVE CollectProvideMany(_, _)
CollectProvideMany(routers, pms) ==
    IF routers = <<>> THEN pms
    ELSE CollectProvideMany(Tail(routers),
                            IF ~Head(routers).batch THEN pms
                            ELSE Append(pms, Head(routers)))

\* Mutant: the len(pms) == 0 test is missing, the wrapper is always returned.
ProvideManyNeverNil(routers) ==
    ProvideManyWrapper(CollectProvideMany(routers, <<>>))

ProvideMany(routers) ==
    LET pms == CollectProvideMany(routers, <<>>)
    IN  IF Len(pms) = 0 THEN NilProvideMany ELSE ProvideManyWrapper(pms)

\* The construction of a Tiered router from the configured backends: the
\* routers are put in ascending order of priority, backends of equal
\* priority staying in configuration order.
RECURSIVE InsertByPriority(_, _)
InsertByPriority(sorted, r) ==
    IF sorted = <<>> THEN <<r>>
    ELSE IF GetPriority(Head(sorted).Parameters) <= GetPriority(r.Parameters)
    THEN <<Head(sorted)>> \o InsertByPriority(Tail(sorted), r)
    ELSE <<r>> \o sorted

RECURSIVE SortByPriority(_)
SortByPriority(rs) ==
    IF rs = <<>> THEN <<>>
    ELSE InsertByPriority(SortByPriority(SubSeq(rs, 1, Len(rs) - 1)), rs[Len(rs)])

\* ------------------------------------------------------- Tiered: inputs
PriorityValues == {NilV, IntV(10), IntV(50), IntV(100000), IntV(200000), StrV("bogus")}
BackendLists ==
    UNION {{[i \in 1..n |-> Backend(i, f[i][1], f[i][2])] :
                f \in [1..n -> PriorityValues \X BOOLEAN]} : n \in 0..MaxRouters}

NoTiered == <<[id |-> 0, Parameters |-> [k \in ParamKeys |-> NilV], batch |-> FALSE]>>
NoProvideMany == [isNil |-> FALSE, pms |-> NoTiered]

TieredIdle == entries = <<>> /\ tiered = NoTiered /\ pm = NoProvideMany

\* Tiered{routinghelpers.Tiered{Routers: entries}}: the routers as listed.
NewTiered ==
    /\ tiered = NoTiered
    /\ tiered' = entries
    /\ UNCHANGED <<entries, pm, conf, out, bpvars>>

\* The Tiered router built from the configuration: the routers by priority.
NewTieredFromConfig ==
    /\ tiered = NoTiered
    /\ tiered' = SortByPriority(entries)
    /\ UNCHANGED <<entries, pm, conf, out, bpvars>>

\* ds.ProvideMany()
ProvideManyCall ==
    /\ tiered # NoTiered /\ pm = NoProvideMany
    /\ pm' = ProvideMany(tiered)
    /\ UNCHANGED <<entries, tiered, conf, out, bpvars>>

TieredNext ==
    \/ NewTiered
    \/ NewTieredFromConfig
    \/ ProvideManyCall

\* ---------------------------------------------------------- specifications
Init == BPInit /\ CfgIdle /\ TieredIdle

\* The wrapper under concurrent callers.
Spec == Init /\ [][Next]_vars

\* The wrapper with every caller's path scheduled fairly.
PassSpec == Init /\ [][PassNext]_vars

FairSpec == Spec /\ \A p \in Callers : WF_vars(Step(p))

\* The router factory applied to every configuration entry of the domain.
CfgInit == BPInit /\ conf \in Confs /\ out = NoOut /\ TieredIdle

CfgSpec == CfgInit /\ [][CfgNext]_vars

\* Every parameter map of the domain, before any accessor is called.
ParamInit ==
    /\ BPInit /\ TieredIdle
    /\ conf \in [Type : {RouterTypeDHT}, Parameters : [ParamKeys -> ParamValues]]
    /\ out = NoOut

ParamSpec == ParamInit /\ [][ParamNext]_vars

\* A Tiered router over every list of backends of the domain.
TieredInit ==
    /\ BPInit /\ CfgIdle
    /\ entries \in BackendLists /\ tiered = NoTiered /\ pm = NoProvideMany

TieredSpec == TieredInit /\ [][TieredNext]_vars

\* ================================================================= claims
Retrying == {"OpenConnection", "OpenStream", "BeginSpan"}
Opening == {"OpenConnection", "OpenStream"}
Last(h) == h[Len(h)]
\* The call's history ends with a delegate attempt that was admitted.
EndsAdmitted(h) == Len(h) > 0 /\ Last(h).ev = "attempt" /\ Last(h).out \in Scopes

\* C1: OpenConnection, OpenStream and BeginSpan never return an error: a call
\* that has returned returned a nil error and the scope the delegate gave on
\* the admitting attempt, which is the last thing the call did; a rejection
\* never ends a call.
C1_NeverReturnsError ==
    \A p \in Callers :
        (op[p] \in Retrying /\ ret[p] # NoRet) =>
            /\ pc[p] = "done"
            /\ ret[p].err = Nil
            /\ EndsAdmitted(hist[p])
            /\ ret[p].val = Last(hist[p]).out

C1_Witness ==
    \E p \in Callers :
        /\ pc[p] = "done" /\ op[p] = "BeginSpan"
        /\ Rejections(hist[p]) >= 1
        /\ ret[p] = [val |-> "scopeB", err |-> Nil]

\* C2: an OpenConnection / OpenStream call that returned after k rejections
\* made exactly k+1 delegate calls, each with the caller's arguments, and k
\* waits, alternating ATTEMPT, WAIT, ATTEMPT, ...; the first k attempts were
\* rejected, the last one admitted, nothing follows it, and its scope is the
\* one returned.
C2_AttemptsAndWaits ==
    \A p \in Callers :
        (pc[p] = "done" /\ op[p] \in Opening) =>
            LET h == hist[p]
                k == Rejections(h)
            IN  /\ Len(h) = 2 * k + 1
                /\ Attempts(h) = k + 1
                /\ Waits(h) = k
                /\ \A i \in 1..Len(h) :
                      IF i % 2 = 1
                      THEN /\ h[i].ev = "attempt"
                           /\ h[i].a = args[p]
                           /\ (i < Len(h) => h[i].out = "reject")
                      ELSE h[i].ev = "wait"
                /\ Last(h).out \in Scopes
                /\ ret[p].val = Last(h).out

C2_Witness ==
    \E p \in Callers :
        /\ pc[p] = "done" /\ op[p] = "OpenStream"
        /\ Rejections(hist[p]) = MaxRejects
        /\ Waits(hist[p]) = MaxRejects

\* C3: for an OpenConnection / OpenStream call during which no other call of
\* the same method is in flight, the method's counter is one above its
\* pre-call value from before the first attempt until the admission, and is
\* back at the pre-call value once the call has returned, whatever the number
\* of rejections.
C3_CounterRestored ==
    \A p \in Callers :
        (op[p] \in Opening /\ alone[p]) =>
            /\ pc[p] \in {"attempt", "sleep", "admitted"} => CounterOf(op[p]) = pre[p] + 1
            /\ pc[p] = "done" => CounterOf(op[p]) = pre[p]

C3_Witness ==
    \E p \in Callers :
        /\ pc[p] = "done" /\ op[p] = "OpenConnection" /\ alone[p]
        /\ Rejections(hist[p]) = MaxRejects
        /\ connCount = pre[p]

\* C4: under fair scheduling of the calling path, with a delegate that
\* rejects a call's attempts only finitely often, every OpenConnection,
\* OpenStream and BeginSpan call eventually returns an admitted scope.
C4_EventuallyAdmitted ==
    \A p \in Callers :
        (op[p] \in Retrying /\ InFlight(p)) ~>
            (pc[p] = "done" /\ ret[p].err = Nil /\ ret[p].val \in Scopes)

C4_Witness ==
    \E p \in Callers :
        /\ pc[p] = "done" /\ op[p] = "OpenConnection"
        /\ Rejections(hist[p]) = MaxRejects
        /\ ret[p].val \in Scopes

\* C5: a ReserveMemory call makes exactly one delegate call, with the
\* caller's size and priority, never waits, returns the delegate's result
\* (its error, or nil) unchanged, and its step changes no wrapper counter.
C5_ReserveMemoryOnce ==
    /\ [](\A p \in Callers :
            (op[p] = "ReserveMemory" /\ pc[p] # "idle") =>
                /\ pc[p] = "done"
                /\ Len(hist[p]) = 1
                /\ hist[p][1].ev = "attempt"
                /\ hist[p][1].a = args[p]
                /\ ret[p].err = hist[p][1].out)
    /\ [][\A p \in Callers :
            (op'[p] = "ReserveMemory" /\ pc[p] = "idle" /\ pc'[p] # "idle") =>
                UNCHANGED <<connCount, streamCount, counter>>]_vars

C5_Witness ==
    \E p \in Callers :
        /\ pc[p] = "done" /\ op[p] = "ReserveMemory"
        /\ ret[p].err = "errLimitExceeded"
        /\ args[p] = <<"size4096", "prioAlways">>

\* C6: Close returns the delegate's Close result and does not interrupt a
\* retry loop: a call that was in its loop when Close was called still has a
\* step to take, and it has returned only if a delegate attempt issued after
\* the Close was admitted.
C6_CloseDoesNotInterrupt ==
    /\ closed => closeRet = closeDelegate
    /\ \A p \in Callers :
        (sawClose[p] /\ op[p] \in Opening) =>
            /\ pc[p] # "idle"
            /\ InFlight(p) => ENABLED Step(p)
            /\ pc[p] = "done" => (EndsAdmitted(hist[p]) /\ ret[p].val = Last(hist[p]).out)
            /\ ~EndsAdmitted(hist[p]) => InLoop(p)

C6_Witness ==
    \E p \in Callers :
        /\ sawClose[p] /\ closed /\ op[p] = "OpenConnection"
        /\ pc[p] = "done"
        /\ Rejections(hist[p]) >= 1
        /\ closeRet = "errClosed"

\* C7: no caller is ever blocked by another: in every reachable state, each
\* caller inside OpenConnection / OpenStream has a step of its own to take; a
\* caller about to attempt can be admitted by that attempt, and an admitted
\* caller can return, whatever the other callers are doing.
C7_Independent ==
    \A p \in Callers :
        (op[p] \in Opening /\ InFlight(p)) =>
            /\ ENABLED Step(p)
            /\ pc[p] = "attempt" => ENABLED (Step(p) /\ pc'[p] = "admitted")
            /\ pc[p] = "admitted" => ENABLED (Step(p) /\ pc'[p] = "done")

C7_Witness ==
    \E p, q \in Callers :
        /\ p # q
        /\ op[p] = "OpenStream" /\ op[q] = "OpenStream"
        /\ pc[q] = "sleep" /\ Rejections(hist[q]) = MaxRejects
        /\ pc[p] = "done" /\ pre[p] = 1 /\ Rejections(hist[p]) = 0

AcceptedModes == {"dht", "dhtclient", "dhtserver", "none"}
Param(key) == conf.Parameters[key]
AppliedDHT == out.fn = "DHTRoutingFromConfig" /\ conf.Type = RouterTypeDHT
\* The no-op router, no error, and no DHT or full-routing-table constructor called.
ReturnsNoop == out.res = Result(NullRouter, NilErr, <<>>)
\* No router, and an InvalidValueError for Mode that lists the accepted values.
ReturnsInvalidMode ==
    /\ out.res.router = NilRouter
    /\ out.res.built = <<>>
    /\ out.res.err.kind = "InvalidValueError"
    /\ out.res.err.ParamName = "Mode"
    /\ Len(out.res.err.ValidValues) = 4
    /\ {out.res.err.ValidValues[i] : i \in 1..4} = AcceptedModes

\* C8 as stated: Mode "none" gives the no-op router whatever the other
\* parameters are, TrackFullNetworkDHT included.
C8_Original ==
    (AppliedDHT /\ Param("Mode") = StrV("none")) => ReturnsNoop

\* C8: for every dht entry whose Mode is "none" and whose TrackFullNetworkDHT
\* is not the bool true, whatever its other parameters are,
\* DHTRoutingFromConfig returns the no-op router with a nil error and calls
\* neither the DHT nor the full-routing-table constructor.
C8_NoneIsNoop ==
    (AppliedDHT /\ Param("Mode") = StrV("none")
                /\ Param("TrackFullNetworkDHT") # BoolV(TRUE)) => ReturnsNoop

C8_Witness ==
    /\ AppliedDHT /\ Param("Mode") = StrV("none")
    /\ Param("TrackFullNetworkDHT") = StrV("bogus")
    /\ Param("Priority") = IntV(7)
    /\ out.res.router = NullRouter

\* C9 as stated: a Mode outside the accepted values gives the
\* InvalidValueError whatever the other parameters are.
C9_Original ==
    (AppliedDHT /\ Param("Mode") \notin {StrV(m) : m \in AcceptedModes}) =>
        /\ ReturnsInvalidMode
        /\ Param("Mode").t = "string" => out.res.err.InvalidValue = Param("Mode").s

\* C9: for every dht entry whose TrackFullNetworkDHT is not the bool true and
\* whose Mode is not one of the accepted values, DHTRoutingFromConfig returns
\* no router and an InvalidValueError for Mode listing the four accepted
\* values, whose invalid value is the Mode string (the empty string when Mode
\* is absent or not a string).
C9_InvalidMode ==
    (AppliedDHT /\ Param("Mode") \notin {StrV(m) : m \in AcceptedModes}
                /\ Param("TrackFullNetworkDHT") # BoolV(TRUE)) =>
        /\ ReturnsInvalidMode
        /\ out.res.err.InvalidValue =
              (IF Param("Mode").t = "string" THEN Param("Mode").s ELSE "")

C9_Witness ==
    /\ AppliedDHT /\ Param("Mode") = StrV("bogus")
    /\ Param("TrackFullNetworkDHT") = BoolV(FALSE)
    /\ out.res.err.InvalidValue = "bogus"

\* C10: for every entry whose Endpoint is absent or not a string,
\* ReframeRoutingFromConfig returns no router and the missing-parameter error
\* naming Endpoint and the entry's router type, and calls no constructor of
\* the remote routing client.
C10_EndpointRequired ==
    (out.fn = "ReframeRoutingFromConfig" /\ Param("Endpoint").t # "string") =>
        /\ out.res.router = NilRouter
        /\ out.res.err.kind = "ParamNeededError"
        /\ out.res.err.ParamName = "Endpoint"
        /\ out.res.err.RouterType = conf.Type
        /\ out.res.built = <<>>

C10_Witness ==
    /\ out.fn = "ReframeRoutingFromConfig" /\ conf.Type = RouterTypeReframe
    /\ Param("Endpoint") = IntV(7)
    /\ out.res.err.kind = "ParamNeededError"
    /\ out.ext = Nil

\* The ids of the backends of a list, in order.
Ids(rs) == [i \in 1..Len(rs) |-> rs[i].id]
\* The positions of the batch-capable backends of the Tiered router.
Capable == {i \in 1..Len(tiered) : tiered[i].batch}

\* C11: ProvideMany returns nil exactly when no backend of the Tiered router
\* implements ProvideMany (the empty list included); otherwise the wrapper's
\* list holds exactly the batch-capable backends, each once, in the order
\* they have in the router list.
C11_ProvideManyFanOut ==
    pm # NoProvideMany =>
        /\ pm.isNil <=> Capable = {}
        /\ pm.isNil => pm.pms = <<>>
        /\ Len(pm.pms) = Cardinality(Capable)
        /\ \A j \in 1..Len(pm.pms) : pm.pms[j].batch
        /\ \A i \in Capable : \E j \in 1..Len(pm.pms) : pm.pms[j] = tiered[i]
        /\ \A i, j \in Capable :
              i < j => \E a, b \in 1..Len(pm.pms) :
                          a < b /\ pm.pms[a] = tiered[i] /\ pm.pms[b] = tiered[j]

C11_Witness ==
    /\ Len(tiered) = 3 /\ pm # NoProvideMany
    /\ ~pm.isNil
    /\ Ids(pm.pms) = <<1, 3>>

\* The priority a backend is configured with: its Priority when that is an
\* integer, 100000 otherwise.
ConfiguredPriority(r) ==
    IF r.Parameters["Priority"].t = "int" THEN r.Parameters["Priority"].n ELSE 100000
\* rs holds the configured backends, each once, by priority.
OrderedByPriority(rs) ==
    /\ Len(rs) = Len(entries)
    /\ \A i \in 1..Len(entries) : \E j \in 1..Len(rs) : rs[j] = entries[i]
    /\ \A i, j \in 1..Len(rs) :
          i < j =>
              \/ ConfiguredPriority(rs[i]) < ConfiguredPriority(rs[j])
              \/ /\ ConfiguredPriority(rs[i]) = ConfiguredPriority(rs[j])
                 /\ rs[i].id < rs[j].id

\* r is configured with an integer Priority.
HasPriority(r) == r.Parameters["Priority"].t = "int"
\* No backend lacking a Priority is ahead of one that has a Priority.
UnsetLast(rs) ==
    \A i, j \in 1..Len(rs) : (i < j /\ ~HasPriority(rs[i])) => ~HasPriority(rs[j])

\* C12 as written: ascending priority order, a backend lacking a Priority
\* counting as 100000 and so coming last, equal priorities in configuration
\* order.
C12_Original ==
    [][NewTieredFromConfig => (OrderedByPriority(tiered') /\ UnsetLast(tiered'))]_vars

\* C12: a Tiered router built from the configuration holds the configured
\* backends, each once, in ascending order of priority, a backend without an
\* integer Priority counting as 100000 (so after every backend configured
\* below 100000, and before any configured above it), and backends of equal
\* priority in configuration order.
C12_PriorityOrder ==
    [][NewTieredFromConfig => OrderedByPriority(tiered')]_vars

C12_Witness ==
    /\ Len(entries) = 3
    /\ entries[1].Parameters["Priority"] = IntV(200000)
    /\ entries[2].Parameters["Priority"] = NilV
    /\ entries[3].Parameters["Priority"] = IntV(10)
    /\ Ids(tiered) = <<3, 2, 1>>

\* The value stored under the key an accessor was called with.
Stored == conf.Parameters[out.key]
\* The Go type each accessor asserts, and what it returns for a value of it.
AccessorType ==
    [String |-> "string", Number |-> "int", StringSlice |-> "[]string", Bool |-> "bool"]
Accessors == DOMAIN AccessorType
ValueAs(v, fn) ==
    CASE fn = "String" -> v.s
      [] fn = "Number" -> v.n
      [] fn = "StringSlice" -> v.l
      [] fn = "Bool" -> v.b
ZeroValue(fn) == ValueAs(NilV, fn)

\* C13: an accessor returns ok = true and the stored value exactly when the
\* key holds a value of the accessor's type; for an absent key or a value of
\* another type it returns ok = false and the zero value of its type; the
\* parameter map is never modified.
C13_Accessors ==
    /\ [](out.fn \in Accessors =>
            /\ out.res.ok <=> Stored.t = AccessorType[out.fn]
            /\ out.res.ok => out.res.out = ValueAs(Stored, out.fn)
            /\ ~out.res.ok => out.res.out = ZeroValue(out.fn))
    /\ [][conf' = conf]_vars

C13_Witness ==
    /\ out.fn = "Number"
    /\ Stored = StrV("dht")
    /\ out.res = [out |-> 0, ok |-> FALSE]

\* C18: GetPriority returns the Priority parameter unchanged when it is an
\* integer (0 and negative values included) and 100000 in every other case.
C18_GetPriority ==
    out.fn = "GetPriority" =>
        out.res = IF conf.Parameters["Priority"].t = "int"
                  THEN conf.Parameters["Priority"].n
                  ELSE 100000

C18_Witness ==
    /\ out.fn = "GetPriority"
    /\ conf.Parameters["Priority"] = IntV(0)
    /\ out.res = 0

\* The full-routing-table constructor was called.
BuiltFullRT == \E i \in 1..Len(out.res.built) : out.res.built[i].ctor = "fullrt.NewFullRT"
\* What the constructor called last returned: its router, or its error.
FromConstructor(router) ==
    IF out.ext = Nil THEN out.res.router = router /\ out.res.err = NilErr
    ELSE out.res.router = NilRouter /\ out.res.err.kind = "external"
                                    /\ out.res.err.msg = out.ext
\* The outcome that Mode alone determines.
ByModeAlone ==
    LET m == Param("Mode")
        dhtMode == [dht |-> "ModeAuto", dhtclient |-> "ModeClient",
                    dhtserver |-> "ModeServer"]
    IN  CASE m.t = "string" /\ m.s \in DOMAIN dhtMode ->
                 /\ out.res.built = <<Ctor("dht.New", dhtMode[m.s])>>
                 /\ FromConstructor(DHTRouter(dhtMode[m.s]))
          [] m = StrV("none") -> ReturnsNoop
          [] OTHER -> ReturnsInvalidMode

\* C14: DHTRoutingFromConfig calls the full-routing-table constructor exactly
\* when TrackFullNetworkDHT is the bool true; then it returns what that
\* constructor returns, whatever Mode is (valid, invalid or absent); when
\* TrackFullNetworkDHT is false, absent or of another type, the outcome is the
\* one Mode determines.
C14_FullRTPrecedence ==
    out.fn = "DHTRoutingFromConfig" =>
        /\ BuiltFullRT <=> Param("TrackFullNetworkDHT") = BoolV(TRUE)
        /\ Param("TrackFullNetworkDHT") = BoolV(TRUE) =>
              /\ out.res.built = <<Ctor("fullrt.NewFullRT", "")>>
              /\ FromConstructor(FullRTRouter)
        /\ Param("TrackFullNetworkDHT") # BoolV(TRUE) => ByModeAlone

C14_Witness ==
    /\ out.fn = "DHTRoutingFromConfig"
    /\ Param("TrackFullNetworkDHT") = BoolV(TRUE)
    /\ Param("Mode") = StrV("bogus")
    /\ out.res.router = FullRTRouter

\* A BeginSpan call that no other BeginSpan call on the scope overlaps or follows.
LoneSpan(p) == op[p] = "BeginSpan" /\ alone[p]

\* C15 as written: after one or more rejections the counter is not back at
\* its pre-call value when BeginSpan returns.
C15_Original ==
    \A p \in Callers :
        (LoneSpan(p) /\ pc[p] = "done" /\ Rejections(hist[p]) >= 1) => counter # pre[p]

\* C15: the counter goes up by one for each rejected attempt and down by one
\* at the admission, so a BeginSpan call that no other call on the scope
\* overlaps returns with the counter at its pre-call value plus k - 1 for k
\* rejections: back at the pre-call value exactly when k = 1.
C15_SpanCounter ==
    \A p \in Callers :
        LoneSpan(p) =>
            /\ pc[p] \in {"attempt", "sleep", "admitted"} =>
                  counter = pre[p] + Rejections(hist[p])
            /\ pc[p] = "rejected" => counter = pre[p] + Rejections(hist[p]) - 1
            /\ pc[p] = "done" =>
                  /\ counter = pre[p] + Rejections(hist[p]) - 1
                  /\ counter = pre[p] <=> Rejections(hist[p]) = 1

C15_Witness ==
    \E p \in Callers :
        /\ LoneSpan(p) /\ pc[p] = "done"
        /\ Rejections(hist[p]) = 1
        /\ pre[p] = 0 /\ counter = 0

\* The calls of method m that have started and not returned.
InFlightOf(m) == {p \in Callers : op[p] = m /\ InFlight(p)}

\* C16: in every reachable state connCount is the number of OpenConnection
\* calls that have started and not yet returned admitted, streamCount the
\* same for OpenStream; neither is ever negative, and each is 0 when no such
\* call is in flight.
C16_CountersExact ==
    /\ connCount = Cardinality(InFlightOf("OpenConnection"))
    /\ streamCount = Cardinality(InFlightOf("OpenStream"))
    /\ connCount >= 0 /\ streamCount >= 0
    /\ InFlightOf("OpenConnection") = {} => connCount = 0
    /\ InFlightOf("OpenStream") = {} => streamCount = 0

C16_Witness ==
    \E p, q \in Callers :
        /\ p # q
        /\ op[p] = "OpenStream" /\ op[q] = "OpenStream"
        /\ pc[p] = "done" /\ pre[p] = 0
        /\ pc[q] = "sleep" /\ pre[q] = 1
        /\ streamCount = 1

\* What one BeginSpan call has added to the counter so far: one for each
\* rejection whose increment has run, minus one once it has returned.
SpanTerm(p) ==
    IF op[p] # "BeginSpan" THEN 0
    ELSE Rejections(hist[p]) - (IF pc[p] = "rejected" THEN 1 ELSE 0)
                             - (IF pc[p] = "done" THEN 1 ELSE 0)
RECURSIVE SpanBalance(_)
SpanBalance(S) ==
    IF S = {} THEN 0
    ELSE LET p == CHOOSE x \in S : TRUE IN SpanTerm(p) + SpanBalance(S \ {p})

\* C19: the per-scope counter is the number of rejected attempts of all
\* BeginSpan calls on the scope minus the number of those calls that have
\* returned; it changes only by +1 after a rejection and by -1 at the return
\* (never on entry), so a call admitted on its first attempt leaves it one
\* below its pre-call value.
C19_SpanBalance ==
    /\ [](counter = SpanBalance(Callers))
    /\ [](\A p \in Callers :
            (LoneSpan(p) /\ pc[p] = "done" /\ Rejections(hist[p]) = 0) =>
                counter = pre[p] - 1)
    /\ [][counter' # counter =>
            \E p \in Callers :
                /\ op[p] = "BeginSpan"
                /\ \/ pc[p] = "rejected" /\ pc'[p] = "sleep" /\ counter' = counter + 1
                   \/ pc[p] = "admitted" /\ pc'[p] = "done" /\ counter' = counter - 1
      ]_vars

C19_Witness ==
    \E p, q \in Callers :
        /\ p # q
        /\ op[p] = "BeginSpan" /\ op[q] = "BeginSpan"
        /\ pc[p] = "done" /\ Rejections(hist[p]) = 0
        /\ pc[q] = "done" /\ Rejections(hist[q]) = 0
        /\ counter = -2

\* The pass-through methods, by receiver.
PassThroughs ==
    [bprm |-> {"ViewSystem", "ViewTransient", "ViewService", "ViewProtocol", "ViewPeer"},
     sms |-> {"ProtocolScope", "SetProtocol", "ServiceScope", "SetService", "PeerScope"},
     cms |-> {"PeerScope", "SetPeer"},
     rss |-> {"ReleaseMemory", "Stat", "Done"}]
PassThroughNames == UNION {PassThroughs[r] : r \in DOMAIN PassThroughs}

\* C17: a pass-through method makes exactly one call, to the method of the
\* same name of its receiver's delegate and with the caller's arguments,
\* returns that call's result (value or error) unchanged without waiting or
\* retrying, and its step changes none of connCount, streamCount and the span
\* counter; Close likewise returns the delegate's Close result and changes no
\* counter.
C17_PassThrough ==
    /\ [](\A p \in Callers :
            (op[p] \in PassThroughNames /\ pc[p] # "idle") =>
                /\ pc[p] = "done"
                /\ Len(hist[p]) = 1
                /\ hist[p][1].ev = "call"
                /\ hist[p][1].m = op[p]
                /\ op[p] \in PassThroughs[hist[p][1].on]
                /\ hist[p][1].a = args[p]
                /\ ret[p] = hist[p][1].res)
    /\ [](closed => closeRet = closeDelegate)
    /\ [][(\/ closed' # closed
           \/ \E p \in Callers : pc[p] = "idle" /\ op'[p] \in PassThroughNames)
          => UNCHANGED <<connCount, streamCount, counter>>]_vars

C17_Witness ==
    \E p, q \in Callers :
        /\ op[p] = "SetPeer" /\ pc[p] = "done"
        /\ args[p] = <<"peerB">>
        /\ ret[p] = [val |-> NoResult, err |-> "errLimitExceeded"]
        /\ op[q] = "OpenConnection" /\ pc[q] = "sleep"
        /\ connCount = 1
====
